---- MODULE Spec2Model ----
(***************************************************************************)
(* A model of simple-scrapper's career-page pipeline, scraper_careers.py:  *)
(* domain discovery (ddg_search_domains), concurrent path probing under    *)
(* the shared semaphore (fetch, probe_domain), row assembly and ranking    *)
(* (scrape_careers), and the pure helpers (clean_obfuscation,              *)
(* extract_emails_from_html, is_job_like).                                 *)
(*                                                                         *)
(* A Python str is a sequence of one-character strings, so that lower(),   *)
(* substring containment, the regular expressions and sorted() are         *)
(* computed character by character.  None is the value None.               *)
(***************************************************************************)
EXTENDS Integers, Sequences, FiniteSets, Bags, TLC

\* None: a value that is no str (every element of a str has one character)
None == <<"None">>

(***************************************************************************)
(* Characters and Python's str operations                                  *)
(***************************************************************************)
UpperChars == <<"A", "B", "C", "D", "E", "F", "G", "H", "I", "J", "K", "L", "M", "N", "O", "P", "Q", "R", "S", "T", "U", "V", "W", "X", "Y", "Z">>
LowerChars == <<"a", "b", "c", "d", "e", "f", "g", "h", "i", "j", "k", "l", "m", "n", "o", "p", "q", "r", "s", "t", "u", "v", "w", "x", "y", "z">>
DigitChars == <<"0", "1", "2", "3", "4", "5", "6", "7", "8", "9">>
\* the printable ASCII characters (code points 32..126, the backquote left out) in
\* code-point order
AsciiChars == <<" ", "!", "\"", "#", "$", "%", "&", "'", "(", ")", "*", "+", ",", "-", ".", "/", "0", "1", "2", "3", "4", "5", "6", "7", "8", "9", ":", ";", "<", "=", ">", "?", "@", "A", "B", "C", "D", "E", "F", "G", "H", "I", "J", "K", "L", "M", "N", "O", "P", "Q", "R", "S", "T", "U", "V", "W", "X", "Y", "Z", "[", "\\", "]", "^", "_", "a", "b", "c", "d", "e", "f", "g", "h", "i", "j", "k", "l", "m", "n", "o", "p", "q", "r", "s", "t", "u", "v", "w", "x", "y", "z", "{", "|", "}", "~">>

Range(s) == {s[i] : i \in DOMAIN s}

IsUpper(c) == c \in Range(UpperChars)
IsLower(c) == c \in Range(LowerChars)
IsAlpha(c) == IsUpper(c) \/ IsLower(c)
\* \s of the re module (on the characters the model uses)
SpaceChars == {" ", "\t", "\n", "\r"}
IsSpace(c) == c \in SpaceChars

\* the rank of c in the code-point order: Ord(c) < Ord(d) exactly when ord(c) < ord(d)
Ord(c) == CHOOSE i \in DOMAIN AsciiChars : AsciiChars[i] = c

LowerChar(c) == IF IsUpper(c) THEN LowerChars[CHOOSE i \in DOMAIN UpperChars : UpperChars[i] = c] ELSE c

\* str.lower()
str_lower(s) == [i \in DOMAIN s |-> LowerChar(s[i])]

\* s[i:] and s[:n] of Python, with 1-based i
Drop(s, n) == SubSeq(s, n + 1, Len(s))
Take(s, n) == SubSeq(s, 1, IF n < Len(s) THEN n ELSE Len(s))

\* s.startswith(p, i-1): p occurs in s at position i
MatchAt(s, p, i) == /\ i >= 1
                    /\ i + Len(p) - 1 <= Len(s)
                    /\ \A k \in 1..Len(p) : s[i + k - 1] = p[k]

\* the case-insensitive literal match of re.I (p is given in lower case)
MatchAtI(s, p, i) == /\ i >= 1
                     /\ i + Len(p) - 1 <= Len(s)
                     /\ \A k \in 1..Len(p) : LowerChar(s[i + k - 1]) = p[k]

\* p in s
str_contains(s, p) == \E i \in 1..(Len(s) + 1) : MatchAt(s, p, i)

\* s.find(p) + 1, 0 when p does not occur
str_find(s, p) == IF str_contains(s, p)
                  THEN CHOOSE i \in 1..(Len(s) + 1) : MatchAt(s, p, i) /\ \A j \in 1..(i - 1) : ~MatchAt(s, p, j)
                  ELSE 0

\* str.strip(): from the first to the last character that is no whitespace
str_strip(s) == LET keep == {i \in DOMAIN s : ~IsSpace(s[i])}
                IN IF keep = {} THEN <<>>
                   ELSE SubSeq(s, CHOOSE i \in keep : \A k \in keep : i <= k,
                                  CHOOSE i \in keep : \A k \in keep : k <= i)

\* a < b for str: lexicographic by code point
RECURSIVE StrLess(_, _)
StrLess(a, b) == IF b = <<>> THEN FALSE
                 ELSE IF a = <<>> THEN TRUE
                 ELSE IF Head(a) = Head(b) THEN StrLess(Tail(a), Tail(b))
                 ELSE Ord(Head(a)) < Ord(Head(b))

\* sorted(S) for a set S of str
RECURSIVE sorted(_)
sorted(S) == IF S = {} THEN <<>>
             ELSE LET m == CHOOSE x \in S : \A y \in S \ {x} : StrLess(x, y)
                  IN <<m>> \o sorted(S \ {m})

RECURSIVE Concat(_)
Concat(ss) == IF ss = <<>> THEN <<>> ELSE Head(ss) \o Concat(Tail(ss))


\* bool(v) for v a str or None
Truthy(v) == v # None /\ v # <<>>

(***************************************************************************)
(* urllib.parse, as far as the pipeline uses it                            *)
(***************************************************************************)
SchemeChars == Range(UpperChars) \cup Range(LowerChars) \cup Range(DigitChars) \cup {"+", "-", "."}

\* urlsplit: the rest of url after "scheme:", url itself when it has no scheme
AfterScheme(url) == LET i == str_find(url, <<":">>)
                    IN IF i > 1 /\ IsAlpha(url[1]) /\ \A k \in 1..(i - 1) : url[k] \in SchemeChars
                       THEN Drop(url, i)
                       ELSE url

\* urlparse(url).netloc: what follows "//" up to the first of "/", "?", "#"
netloc(url) == LET rest == AfterScheme(url)
               IN IF Take(rest, 2) = <<"/", "/">>
                  THEN LET tail == Drop(rest, 2)
                           ends == {k \in 1..Len(tail) : tail[k] \in {"/", "?", "#"}}
                           stop == IF ends = {} THEN Len(tail) + 1
                                   ELSE CHOOSE k \in ends : \A m \in ends : k <= m
                       IN SubSeq(tail, 1, stop - 1)
                  ELSE <<>>

\* urljoin(base, p) for a path p that starts with one "/": the base's scheme and
\* host, then p
urljoin(base, p) == Take(base, Len(base) - Len(AfterScheme(base))) \o <<"/", "/">> \o netloc(base) \o p

(***************************************************************************)
(* Configuration                                                           *)
(***************************************************************************)
\* COMMON_PATHS, cut to its first entry
COMMON_PATHS == << <<"/", "c", "a", "r", "e", "e", "r", "s">> >>

\* COMMON_PATHS, every entry
COMMON_PATHS_ALL ==
    << <<"/", "c", "a", "r", "e", "e", "r", "s">>, <<"/", "c", "a", "r", "e", "e", "r", "s", "/">>, <<"/", "j", "o", "b", "s">>, <<"/", "j", "o", "b", "s", "/">>, <<"/", "a", "b", "o", "u", "t", "/", "c", "a", "r", "e", "e", "r", "s">>, <<"/", "c", "o", "m", "p", "a", "n", "y", "/", "c", "a", "r", "e", "e", "r", "s">>,
       <<"/", "c", "a", "r", "e", "e", "r", "s", ".", "h", "t", "m", "l">>, <<"/", "c", "a", "r", "e", "e", "r", "s", ".", "p", "h", "p">>, <<"/", "j", "o", "i", "n", "-", "u", "s">>, <<"/", "j", "o", "i", "n", "-", "u", "s", "/">>, <<"/", "v", "a", "c", "a", "n", "c", "i", "e", "s">>, <<"/", "o", "p", "e", "n", "-", "p", "o", "s", "i", "t", "i", "o", "n", "s">>,
       <<"/", "w", "o", "r", "k", "-", "w", "i", "t", "h", "-", "u", "s">>, <<"/", "a", "b", "o", "u", "t", "-", "u", "s", "/", "c", "a", "r", "e", "e", "r", "s">>, <<"/", "t", "e", "a", "m">>, <<"/", "a", "b", "o", "u", "t">>, <<"/", "c", "o", "n", "t", "a", "c", "t">>, <<"/", "c", "o", "n", "t", "a", "c", "t", "-", "u", "s">> >>

\* the query templates of ddg_search_domains, cut to the first two
templates == << "{q} jobs", "{q} careers" >>

\* the slot count of the shared semaphore (20 in the source, scaled down so that
\* the candidate URLs of one run outnumber the slots)
SEM_MAX == 2

\* the largest result budget (max_results) a caller passes
MaxBudget == 4

\* [:800], the snippet length
SNIPPET_LEN == 800

(***************************************************************************)
(* HTML documents.  An html value is a record: the sequence of its         *)
(* elements, and whether the parser rejects it.  html_text is the str the  *)
(* HTTP client returned (r.text); the soup_ operators are what             *)
(* BeautifulSoup(html, "html.parser") answers.                             *)
(***************************************************************************)
Elem(tag, text, href) == [tag |-> tag, text |-> text, href |-> href]

ElemText(e) == IF e.tag = "a"
               THEN <<"<", "a", " ", "h", "r", "e", "f", "=", "\"">> \o e.href \o <<"\"", ">">> \o e.text \o <<"<", "/", "a", ">">>
               ELSE IF e.tag = "h1" THEN <<"<", "h", "1", ">">> \o e.text \o <<"<", "/", "h", "1", ">">>
               ELSE IF e.tag = "title" THEN <<"<", "t", "i", "t", "l", "e", ">">> \o e.text \o <<"<", "/", "t", "i", "t", "l", "e", ">">>
               ELSE e.text

RECURSIVE html_text_of(_)
html_text_of(elems) == IF elems = <<>> THEN <<>>
                       ELSE ElemText(Head(elems)) \o html_text_of(Tail(elems))

html_text(html) == html_text_of(html.elems)

EmptyBody == [elems |-> <<>>, malformed |-> FALSE]

\* BeautifulSoup(html, "html.parser") raises
soup_raises(html) == html.malformed

\* soup.find(tag): <<e>> for the first element e with that tag, <<>> for None
soup_find(html, tag) == LET hits == {k \in DOMAIN html.elems : html.elems[k].tag = tag}
                        IN IF hits = {} THEN <<>>
                           ELSE <<html.elems[CHOOSE k \in hits : \A m \in hits : k <= m]>>

RECURSIVE JoinNonEmpty(_, _)
JoinNonEmpty(strs, sep) == IF strs = <<>> THEN <<>>
                           ELSE LET rest == JoinNonEmpty(Tail(strs), sep)
                                IN IF Head(strs) = <<>> THEN rest
                                   ELSE IF rest = <<>> THEN Head(strs)
                                   ELSE Head(strs) \o sep \o rest

\* soup.get_text(separator=" ", strip=True): the stripped, non-empty text strings
\* joined by one space
soup_get_text(html) == JoinNonEmpty([k \in DOMAIN html.elems |-> str_strip(html.elems[k].text)], <<" ">>)

\* soup.select('a[href^="mailto:"]'), the href of each hit
soup_select_mailto(html) == LET hits == {k \in DOMAIN html.elems :
                                            /\ html.elems[k].tag = "a"
                                            /\ MatchAt(html.elems[k].href, <<"m", "a", "i", "l", "t", "o", ":">>, 1)}
                                RECURSIVE Pick(_)
                                Pick(k) == IF k > Len(html.elems) THEN <<>>
                                           ELSE IF k \in hits THEN <<html.elems[k].href>> \o Pick(k + 1)
                                           ELSE Pick(k + 1)
                            IN Pick(1)


(***************************************************************************)
(* clean_obfuscation, extract_emails_from_html, is_job_like                *)
(***************************************************************************)
\* the length of the longest run of characters of one class that starts at s[i]
RunLength(s, i, class) ==
    IF i > Len(s) THEN 0
    ELSE CHOOSE n \in 0..(Len(s) - i + 1) :
            /\ \A k \in 0..(n - 1) : s[i + k] \in class
            /\ i + n <= Len(s) => s[i + n] \notin class

SpaceRun(s, i) == RunLength(s, i, SpaceChars)

\* \s+word\s+ at s[i] (re.I): the length of the match, 0 when there is none
SpacedWord(s, word, i) == LET a == SpaceRun(s, i)
                              b == SpaceRun(s, i + a + Len(word))
                          IN IF a >= 1 /\ MatchAtI(s, word, i + a) /\ b >= 1
                             THEN a + Len(word) + b
                             ELSE 0

\* \s*tok\s* at s[i] (re.I)
PaddedToken(s, tok, i) == LET a == SpaceRun(s, i)
                          IN IF MatchAtI(s, tok, i + a)
                             THEN a + Len(tok) + SpaceRun(s, i + a + Len(tok))
                             ELSE 0

\* the regular expressions of OBFUSCATIONS tried at s[i], alternatives left to
\* right: the length of the match, 0 when there is none
PatternMatch(pat, s, i) ==
    IF pat = "at"
    THEN IF MatchAtI(s, <<"[", "a", "t", "]">>, i) THEN 4
         ELSE IF MatchAtI(s, <<"(", "a", "t", ")">>, i) THEN 4
         ELSE SpacedWord(s, <<"a", "t">>, i)
    ELSE IF pat = "dot"
    THEN IF MatchAtI(s, <<"[", "d", "o", "t", "]">>, i) THEN 5
         ELSE IF MatchAtI(s, <<"(", "d", "o", "t", ")">>, i) THEN 5
         ELSE SpacedWord(s, <<"d", "o", "t">>, i)
    ELSE PaddedToken(s, <<"[", "u", "n", "d", "e", "r", "s", "c", "o", "r", "e", "]">>, i)

OBFUSCATIONS == << [pattern |-> "at", repl |-> <<"@">>],
                   [pattern |-> "dot", repl |-> <<".">>],
                   [pattern |-> "underscore", repl |-> <<"_">>] >>

\* re.sub(pattern, repl, s, flags=re.I) from s[i] on: the text up to the leftmost
\* match is kept, the match is replaced, and the scan goes on behind it
RECURSIVE re_sub(_, _, _, _)
re_sub(pat, repl, s, i) ==
    LET starts == {j \in i..Len(s) : PatternMatch(pat, s, j) > 0}
    IN IF starts = {} THEN SubSeq(s, i, Len(s))
       ELSE LET j == CHOOSE x \in starts : \A y \in starts : x <= y
            IN SubSeq(s, i, j - 1) \o repl \o re_sub(pat, repl, s, j + PatternMatch(pat, s, j))

RECURSIVE clean_from(_, _)
clean_from(s, k) == IF k > Len(OBFUSCATIONS) THEN s
                    ELSE clean_from(re_sub(OBFUSCATIONS[k].pattern, OBFUSCATIONS[k].repl, s, 1), k + 1)

clean_obfuscation(text) == clean_from(text, 1)

\* EMAIL_RE: [a-zA-Z0-9._%+\-]+ @ [a-zA-Z0-9.\-]+ \. [a-zA-Z]{2,}
AlphaChars == Range(UpperChars) \cup Range(LowerChars)
LocalChars == AlphaChars \cup Range(DigitChars) \cup {".", "_", "%", "+", "-"}
HostChars == AlphaChars \cup Range(DigitChars) \cup {".", "-"}

LocalRun(s, i) == RunLength(s, i, LocalChars)
HostRun(s, i) == RunLength(s, i, HostChars)
AlphaRun(s, i) == RunLength(s, i, AlphaChars)

\* EMAIL_RE tried at s[i]: the length of the match, 0 when there is none.  Each
\* part is greedy: the local part is the whole run before "@"; the host part
\* gives back characters until a "." followed by two letters or more is left.
EmailMatch(s, i) ==
    LET a == LocalRun(s, i)
        h == i + a + 1
        r == HostRun(s, h)
        dots == {d \in 1..(r - 1) : s[h + d] = "." /\ AlphaRun(s, h + d + 1) >= 2}
    IN IF a >= 1 /\ i + a <= Len(s) /\ s[i + a] = "@" /\ dots # {}
       THEN LET d == CHOOSE x \in dots : \A y \in dots : y <= x
            IN a + 1 + d + 1 + AlphaRun(s, h + d + 1)
       ELSE 0

\* EMAIL_RE.findall(s) from s[i] on: the leftmost match, then the matches behind it
RECURSIVE findall(_, _)
findall(s, i) ==
    LET starts == {j \in i..Len(s) : EmailMatch(s, j) > 0}
    IN IF starts = {} THEN <<>>
       ELSE LET j == CHOOSE x \in starts : \A y \in starts : x <= y
                n == EmailMatch(s, j)
            IN <<SubSeq(s, j, j + n - 1)>> \o findall(s, j + n)

\* s.split(sep)[0] and s.split(sep)[1], the latter for an s that contains sep
SplitFirst(s, sep) == LET i == str_find(s, sep)
                      IN IF i = 0 THEN s ELSE SubSeq(s, 1, i - 1)
SplitSecond(s, sep) == SplitFirst(Drop(s, str_find(s, sep) + Len(sep) - 1), sep)

\* the address of one mailto: href, as it is put into the set
MailtoAddr(href) == str_strip(SplitFirst(SplitSecond(href, <<"m", "a", "i", "l", "t", "o", ":">>), <<"?">>))

\* the regex match as it is put into the set
FoundAddr(m) == str_lower(str_strip(m))

\* a variant: the mailto: addresses are collected although the parser raised
MailtoAddrsUnguarded(html) == {MailtoAddr(h) : h \in Range(soup_select_mailto(html))} \ {<<>>}

\* the try block: the addresses of the mailto: links, none when the parser raises
MailtoAddrs(html) == IF soup_raises(html) THEN {}
                     ELSE {MailtoAddr(h) : h \in Range(soup_select_mailto(html))} \ {<<>>}

extract_emails_from_html(html) ==
    sorted(MailtoAddrs(html)
           \cup {FoundAddr(m) : m \in Range(findall(clean_obfuscation(html_text(html)), 1))})

JOB_KEYWORDS == << <<"j", "o", "b">>, <<"j", "o", "b", "s">>, <<"c", "a", "r", "e", "e", "r">>, <<"c", "a", "r", "e", "e", "r", "s">>, <<"a", "p", "p", "l", "y">>, <<"h", "i", "r", "i", "n", "g">>, <<"v", "a", "c", "a", "n", "c", "y">>,
                   <<"v", "a", "c", "a", "n", "c", "i", "e", "s">>, <<"o", "p", "e", "n", " ", "p", "o", "s", "i", "t", "i", "o", "n">>, <<"o", "p", "e", "n", "i", "n", "g", "s">>, <<"j", "o", "i", "n", " ", "o", "u", "r", " ", "t", "e", "a", "m">> >>

\* a variant: the text is not lower-cased
is_job_like_cased(text) == LET t == IF Truthy(text) THEN text ELSE <<>>
                           IN \E k \in DOMAIN JOB_KEYWORDS : str_contains(t, JOB_KEYWORDS[k])

is_job_like(text) == LET t == str_lower(IF Truthy(text) THEN text ELSE <<>>)
                     IN \E k \in DOMAIN JOB_KEYWORDS : str_contains(t, JOB_KEYWORDS[k])


(***************************************************************************)
(* State                                                                   *)
(***************************************************************************)
VARIABLES
    pc,             \* where the run is: "search", "probe", "done", "error";
                    \* "ready"/"returned" for a call of a pure helper
    max_results,    \* ddg_search_domains: the result budget
    tmpl,           \* ddg_search_domains: the index of the next template
    domains,        \* the set of discovered domains
    searchLog,      \* history: what each search call of this discovery did
    order,          \* the order in which the set domains is iterated
    fst,            \* fst[i][j]: fetch j of domain i is "waiting", "holding", "done"
    fres,           \* fres[i][j]: what that fetch returned
    raisedIn,       \* history: the fetches whose HTTP request raised
    requested,      \* history: the bag of URLs requested in this probing run
    sem,            \* the free slots of the module's semaphore
    probe_results,  \* probe_results[i]: what probe_domain returned for domain i
    rows,           \* the rows assembled by scrape_careers
    df,             \* the value scrape_careers returns
    input,          \* the argument of a call of a pure helper
    output,         \* and its result
    run,            \* the number of this invocation of scrape_careers in the process
    loop,           \* the event loop this invocation runs in
    semLoop,        \* the event loop the semaphore is bound to, 0 for none yet
    visited_domains,\* app.py: the module's set of domains seen so far
    scraped_data,   \* app.py: the module's list of rows
    search_results,        \* job_scraper: the search search_results not yet iterated
    cur,            \* job_scraper: the url and domain handed to scrape_page
    calls,          \* the number of job_scraper calls so far in the process
    requestLog      \* history: the URLs scrape_page has requested

vars == <<pc, max_results, tmpl, domains, searchLog, order, fst, fres, raisedIn, requested, sem,
          probe_results, rows, df, input, output, run, loop, semLoop,
          visited_domains, scraped_data, search_results, cur, calls, requestLog>>

searchVars == <<max_results, tmpl, domains, searchLog>>
probeVars == <<order, fst, fres, raisedIn, requested, sem, probe_results>>
helperVars == <<input, output>>
processVars == <<run, loop, semLoop>>
appVars == <<visited_domains, scraped_data, search_results, cur, calls, requestLog>>

(***************************************************************************)
(* The collaborators' answers                                              *)
(***************************************************************************)
\* the result items the search collaborator may return
ITEMS == { [href |-> <<"h", "t", "t", "p", "s", ":", "/", "/", "a", ".", "c", "o", "/", "a">>, link |-> None],
           [href |-> None, link |-> <<"h", "t", "t", "p", "s", ":", "/", "/", "A", ".", "c", "o", "/", "b">>],
           [href |-> <<>>, link |-> <<"h", "t", "t", "p", ":", "/", "/", "b", ".", "c", "o">>],
           [href |-> <<"/", "a", "b", "o", "u", "t">>, link |-> None],
           [href |-> None, link |-> None] }

SeqsUpTo(S, n) == UNION {[1..k -> S] : k \in 0..n}

JobPage == [elems |-> << Elem("h1", <<"W", "e", " ", "a", "r", "e", " ", "H", "I", "R", "I", "N", "G", " ", "n", "o", "w", "!">>, None),
                         Elem("a", <<"m", "a", "i", "l">>, <<"m", "a", "i", "l", "t", "o", ":", "H", "R", "@", "a", ".", "c", "o", "?", "s", "u", "b", "j", "e", "c", "t", "=", "h", "i">>) >>,
            malformed |-> FALSE]
PlainPage == [elems |-> << Elem("title", <<"A", "b", "o", "u", "t", " ", "o", "u", "r", " ", "o", "f", "f", "i", "c", "e", " ", "p", "l", "a", "n", "t", "s">>, None),
                           Elem("p", <<"i", "t", " ", "a", "t", " ", "b", " ", "d", "o", "t", " ", "c", "o">>, None) >>,
              malformed |-> FALSE]
BrokenPage == [elems |-> << Elem("p", <<"j", "o", "b", "s", ":", " ", "x", "@", "b", ".", "c", "o">>, None),
                            Elem("a", <<"m", "a", "i", "l">>, <<"m", "a", "i", "l", "t", "o", ":", "H", "R", "@", "b", ".", "c", "o">>) >>,
               malformed |-> TRUE]
ErrorPage == [elems |-> << Elem("title", <<"N", "o", "t", " ", "F", "o", "u", "n", "d">>, None) >>, malformed |-> FALSE]

\* what client.get may answer: <<r.status_code, r.text>>
RESPONSES == { <<200, JobPage>>, <<200, PlainPage>>, <<200, BrokenPage>>, <<200, EmptyBody>>,
               <<404, ErrorPage>> }

(***************************************************************************)
(* app.py: job_scraper and scrape_page over the module's visited_domains   *)
(* and scraped_data                                                        *)
(***************************************************************************)
\* the result items ddg.text may return to job_scraper; href None: no such key
APP_ITEMS == { [href |-> <<"h", "t", "t", "p", "s", ":", "/", "/", "a", ".", "c", "o", "/", "a">>],
               [href |-> <<"h", "t", "t", "p", "s", ":", "/", "/", "A", ".", "c", "o", "/", "b">>],
               [href |-> <<"h", "t", "t", "p", ":", "/", "/", "b", ".", "c", "o">>],
               [href |-> <<"/", "a", "b", "o", "u", "t">>],
               [href |-> <<>>],
               [href |-> None] }

\* what requests.get may do with url: <<status_code, text>>, or raise; a url
\* without a host raises before anything is sent
APP_RESPONSES(url) ==
    IF netloc(url) = <<>> THEN {"raises"}
    ELSE {"raises", <<200, JobPage>>, <<200, BrokenPage>>, <<404, ErrorPage>>}

\* [:500], the description length
DESCRIPTION_LEN == 500

\* scrape_page after requests.get: <<page_data>>, or <<>> for None
scrape_page(resp) ==
    IF resp = "raises" THEN <<>>
    ELSE IF resp[1] # 200 THEN <<>>
    ELSE IF soup_raises(resp[2]) THEN <<>>
    ELSE LET h1 == soup_find(resp[2], "h1")
             title_tag == IF h1 # <<>> THEN h1 ELSE soup_find(resp[2], "title")
         IN << [title |-> IF title_tag # <<>> THEN str_strip(title_tag[1].text) ELSE <<"N", "/", "A">>,
                description |-> Take(soup_get_text(resp[2]), DESCRIPTION_LEN)] >>

\* a variant: the host is compared as written
UrlDomainAsWritten(url) == netloc(url)

\* urlparse(url).netloc.lower()
UrlDomain(url) == str_lower(netloc(url))

\* the module's globals when app.py has been imported
AppInit ==
    /\ visited_domains = {}
    /\ scraped_data = <<>>
    /\ search_results = <<>>
    /\ cur = None
    /\ calls = 0
    /\ requestLog = <<>>

(***************************************************************************)
(* ddg_search_domains                                                      *)
(***************************************************************************)
\* max_results // len(templates)
PerTemplate(budget) == budget \div Len(templates)

\* item.get("href") or item.get("link")
ItemHref(item) == IF Truthy(item.href) THEN item.href ELSE item.link

\* a variant: the host is kept as written
ItemDomainAsWritten(item) == IF ~Truthy(ItemHref(item)) THEN <<>>
                             ELSE netloc(ItemHref(item))

\* the domain one item contributes: urlparse(href).netloc.lower(), the empty str
\* when the item is skipped
ItemDomain(item) == IF ~Truthy(ItemHref(item)) THEN <<>>
                    ELSE str_lower(netloc(ItemHref(item)))

ItemDomains(items) == {ItemDomain(items[k]) : k \in DOMAIN items} \ {<<>>}

\* a variant: the except clause leaves the loop
AfterFailureBreak(t) == Len(templates) + 1

\* the template tried after template t raised: the except clause continues
AfterFailure(t) == t + 1

SearchInit ==
    /\ pc = "search"
    /\ max_results \in 0..MaxBudget
    /\ tmpl = 1
    /\ domains = {}
    /\ searchLog = <<>>

\* one pass of the loop over templates: ddg.text returns items
SearchTemplate ==
    /\ pc = "search"
    /\ tmpl \in DOMAIN templates
    /\ \E items \in SeqsUpTo(ITEMS, PerTemplate(max_results)) :
          /\ domains' = domains \cup ItemDomains(items)
          /\ searchLog' = Append(searchLog, [template |-> tmpl, failed |-> FALSE, items |-> items])
    /\ tmpl' = tmpl + 1
    /\ UNCHANGED <<pc, max_results, probeVars, rows, df, helperVars, processVars, appVars>>

\* one pass of the loop over templates: ddg.text raises
SearchTemplateFails ==
    /\ pc = "search"
    /\ tmpl \in DOMAIN templates
    /\ searchLog' = Append(searchLog, [template |-> tmpl, failed |-> TRUE, items |-> <<>>])
    /\ tmpl' = AfterFailure(tmpl)
    /\ UNCHANGED <<pc, max_results, domains, probeVars, rows, df, helperVars, processVars, appVars>>

(***************************************************************************)
(* fetch, probe_domain                                                     *)
(***************************************************************************)
\* the candidate URLs of one domain
ProbeUrls(domain) == LET base == <<"h", "t", "t", "p", "s", ":", "/", "/">> \o domain
                     IN <<base>> \o [k \in DOMAIN COMMON_PATHS |-> urljoin(base, COMMON_PATHS[k])]

NumUrls == Len(COMMON_PATHS) + 1

\* the candidate URLs of one domain over every entry of COMMON_PATHS
ProbeUrlsAll(domain) == LET base == <<"h", "t", "t", "p", "s", ":", "/", "/">> \o domain
                        IN <<base>> \o [k \in DOMAIN COMMON_PATHS_ALL |-> urljoin(base, COMMON_PATHS_ALL[k])]

Fetches == {<<i, j>> : i \in DOMAIN order, j \in 1..NumUrls}
Holding == {f \in Fetches : fst[f[1]][f[2]] = "holding"}
Waiting == {f \in Fetches : fst[f[1]][f[2]] = "waiting"}
FetchUrl(i, j) == ProbeUrls(order[i])[j]

\* a variant: the request is issued without waiting for a slot
SemCanAcquireUnguarded(value) == TRUE

\* async with sem: a fetch enters when a slot is free
SemCanAcquire(value) == value > 0
\* a variant: the slot is kept when the async with block is left
SemReleaseLeaks(value) == value

\* leaving the async with block gives the slot back
SemRelease(value) == value + 1

\* what fetch returns for a response
FetchReturn(url, status, text) == <<url, status, text>>
\* a variant: the except clause reports a status
FetchExceptWithStatus(url) == <<url, 500, EmptyBody>>

\* what fetch returns when the request raised
FetchExcept(url) == <<url, 0, EmptyBody>>

\* a variant: the filter forgets the body
SuccessfulAnyBody(r) == r[2] = 200

\* the filter of probe_domain
Successful(r) == r[2] = 200 /\ html_text(r[3]) # <<>>
ProbeFilter(results) == SelectSeq(results, Successful)

Perms(S) == {p \in [1..Cardinality(S) -> S] : \A a, b \in 1..Cardinality(S) : a # b => p[a] # p[b]}

\* a variant: the tasks are created while the loop over templates is still running
DiscoveryReturnedEarly(t) == t >= 1

\* ddg_search_domains returns when its loop over templates has ended
DiscoveryReturned(t) == t = Len(templates) + 1

\* ddg_search_domains returns; scrape_careers creates one probe_domain task per
\* domain, and each of them one fetch task per candidate URL
StartProbing ==
    /\ pc = "search"
    /\ DiscoveryReturned(tmpl)
    /\ pc' = "probe"
    /\ \E p \in Perms(domains) : order' = p
    /\ fst' = [i \in 1..Cardinality(domains) |-> [j \in 1..NumUrls |-> "waiting"]]
    /\ fres' = [i \in 1..Cardinality(domains) |-> [j \in 1..NumUrls |-> <<>>]]
    /\ probe_results' = [i \in 1..Cardinality(domains) |-> [returned |-> FALSE, pages |-> <<>>]]
    \* the frame of ddg_search_domains is gone
    /\ max_results' = 0
    /\ tmpl' = 0
    /\ searchLog' = <<>>
    /\ UNCHANGED <<domains, raisedIn, requested, sem, rows, df, helperVars, processVars, appVars>>

\* a fetch takes a slot and issues its request
Acquire(i, j) ==
    /\ pc = "probe"
    /\ fst[i][j] = "waiting"
    /\ SemCanAcquire(sem)
    /\ sem' = sem - 1
    /\ fst' = [fst EXCEPT ![i][j] = "holding"]
    /\ requested' = requested (+) SetToBag({FetchUrl(i, j)})
    /\ UNCHANGED <<pc, searchVars, order, fres, raisedIn, probe_results, rows, df, helperVars, processVars, appVars>>

\* asyncio.Semaphore binds itself to the event loop of the first fetch that has
\* to wait; a fetch that has to wait while the semaphore is bound to another loop
\* gets RuntimeError from acquire
SemLoopAccepts(bound, running) == bound = 0 \/ bound = running

\* a fetch finds every slot taken and waits for one
Block(i, j) ==
    /\ pc = "probe"
    /\ fst[i][j] = "waiting"
    /\ ~SemCanAcquire(sem)
    /\ SemLoopAccepts(semLoop, loop)
    /\ semLoop' = loop
    /\ UNCHANGED <<pc, searchVars, order, fst, fres, raisedIn, requested, sem, probe_results, rows, df,
                   helperVars, run, loop, appVars>>

\* a fetch finds every slot taken and acquire raises: the except clause of fetch
\* returns the failure value, no request is issued
AcquireRaises(i, j) ==
    /\ pc = "probe"
    /\ fst[i][j] = "waiting"
    /\ ~SemCanAcquire(sem)
    /\ ~SemLoopAccepts(semLoop, loop)
    /\ fres' = [fres EXCEPT ![i][j] = FetchExcept(FetchUrl(i, j))]
    /\ fst' = [fst EXCEPT ![i][j] = "done"]
    /\ UNCHANGED <<pc, searchVars, order, raisedIn, requested, sem, probe_results, rows, df, helperVars,
                   processVars, appVars>>

\* a variant: a fetch whose answer is not 200 goes back to wait for a slot and
\* asks again
RespondRetrying(i, j) ==
    /\ pc = "probe"
    /\ fst[i][j] = "holding"
    /\ \E resp \in RESPONSES :
          IF resp[1] = 200
          THEN /\ fres' = [fres EXCEPT ![i][j] = FetchReturn(FetchUrl(i, j), resp[1], resp[2])]
               /\ fst' = [fst EXCEPT ![i][j] = "done"]
          ELSE /\ fres' = fres
               /\ fst' = [fst EXCEPT ![i][j] = "waiting"]
    /\ sem' = SemRelease(sem)
    /\ UNCHANGED <<pc, searchVars, order, raisedIn, requested, probe_results, rows, df, helperVars, processVars, appVars>>

\* the request of a fetch is answered
Respond(i, j) ==
    /\ pc = "probe"
    /\ fst[i][j] = "holding"
    /\ \E resp \in RESPONSES : fres' = [fres EXCEPT ![i][j] = FetchReturn(FetchUrl(i, j), resp[1], resp[2])]
    /\ sem' = SemRelease(sem)
    /\ fst' = [fst EXCEPT ![i][j] = "done"]
    /\ UNCHANGED <<pc, searchVars, order, raisedIn, requested, probe_results, rows, df, helperVars, processVars, appVars>>

\* the request of a fetch raises (network error, timeout)
RequestRaises(i, j) ==
    /\ pc = "probe"
    /\ fst[i][j] = "holding"
    /\ fres' = [fres EXCEPT ![i][j] = FetchExcept(FetchUrl(i, j))]
    /\ raisedIn' = raisedIn \cup {<<i, j>>}
    /\ sem' = SemRelease(sem)
    /\ fst' = [fst EXCEPT ![i][j] = "done"]
    /\ UNCHANGED <<pc, searchVars, order, requested, probe_results, rows, df, helperVars, processVars, appVars>>

\* the gather of probe_domain i is complete; probe_domain filters and returns
ProbeReturn(i) ==
    /\ pc = "probe"
    /\ ~probe_results[i].returned
    /\ \A j \in 1..NumUrls : fst[i][j] = "done"
    /\ probe_results' = [probe_results EXCEPT ![i] = [returned |-> TRUE, pages |-> ProbeFilter(fres[i])]]
    /\ UNCHANGED <<pc, searchVars, order, fst, fres, raisedIn, requested, sem, rows, df, helperVars, processVars, appVars>>

(***************************************************************************)
(* scrape_careers: rows and ranking                                        *)
(***************************************************************************)
\* the try block around the parser: <<title, snippet>>, both "" when it raises
PageTitleSnippet(html) ==
    IF soup_raises(html) THEN << <<>>, <<>> >>
    ELSE LET h1 == soup_find(html, "h1")
             title_tag == IF h1 # <<>> THEN h1 ELSE soup_find(html, "title")
         IN << IF title_tag # <<>> THEN str_strip(title_tag[1].text) ELSE <<>>,
               Take(soup_get_text(html), SNIPPET_LEN) >>

\* is_job_like(snippet) or is_job_like(title)
RowJobLike(snippet, title) == is_job_like(snippet) \/ is_job_like(title)

RECURSIVE str_join(_, _)
str_join(sep, strs) == IF strs = <<>> THEN <<>>
                       ELSE IF Len(strs) = 1 THEN Head(strs)
                       ELSE Head(strs) \o sep \o str_join(sep, Tail(strs))

\* the row of one successful page
PageRow(domain, r) ==
    LET ts == PageTitleSnippet(r[3])
    IN [domain |-> domain,
        url |-> r[1],
        status |-> r[2],
        title |-> IF ts[1] # <<>> THEN ts[1] ELSE <<"N", "/", "A">>,
        snippet |-> ts[2],
        is_job_like |-> RowJobLike(ts[2], ts[1]),
        emails |-> str_join(<<";">>, extract_emails_from_html(r[3]))]

\* a variant: the search_results are paired with the domains in the opposite order
RECURSIVE AssembleRowsCrossed(_)
AssembleRowsCrossed(i) ==
    IF i > Len(order) THEN <<>>
    ELSE LET pages == probe_results[Len(order) + 1 - i].pages
         IN [k \in DOMAIN pages |-> PageRow(order[i], pages[k])] \o AssembleRowsCrossed(i + 1)

\* the two loops over zip(domains, probe_results)
RECURSIVE AssembleRows(_)
AssembleRows(i) == IF i > Len(order) THEN <<>>
                   ELSE [k \in DOMAIN probe_results[i].pages |-> PageRow(order[i], probe_results[i].pages[k])]
                        \o AssembleRows(i + 1)

\* a variant: both columns ascending
RowLEAscending(a, b) == \/ ~a.is_job_like /\ b.is_job_like
                        \/ a.is_job_like = b.is_job_like /\ ~StrLess(b.domain, a.domain)

\* the sort key (is_job_like descending, domain ascending): a is not after b
RowLE(a, b) == \/ a.is_job_like /\ ~b.is_job_like
               \/ a.is_job_like = b.is_job_like /\ ~StrLess(b.domain, a.domain)

\* df.sort_values(by=["is_job_like", "domain"], ascending=[False, True]): a stable
\* sort, computed by insertion
RECURSIVE sort_values(_)
sort_values(rs) == IF rs = <<>> THEN <<>>
                   ELSE LET s == sort_values(SubSeq(rs, 1, Len(rs) - 1))
                            r == rs[Len(rs)]
                            k == Cardinality({m \in DOMAIN s : RowLE(s[m], r)})
                        IN SubSeq(s, 1, k) \o <<r>> \o SubSeq(s, k + 1, Len(s))

\* pd.DataFrame(rows) has no columns when rows is empty, and sort_values then
\* raises KeyError
SortRaises(rs) == rs = <<>>

\* the outer gather is complete; scrape_careers assembles, sorts and returns
Finish ==
    /\ pc = "probe"
    /\ \A i \in DOMAIN order : probe_results[i].returned
    /\ rows' = AssembleRows(1)
    /\ IF SortRaises(rows')
       THEN pc' = "error" /\ df' = <<>>
       ELSE pc' = "done" /\ df' = sort_values(rows')
    /\ UNCHANGED <<searchVars, probeVars, helperVars, processVars, appVars>>

Init ==
    /\ SearchInit
    /\ order = <<>>
    /\ fst = <<>>
    /\ fres = <<>>
    /\ raisedIn = {}
    /\ requested = EmptyBag
    /\ sem = SEM_MAX
    /\ probe_results = <<>>
    /\ rows = <<>>
    /\ df = <<>>
    /\ input = None
    /\ output = None
    /\ run = 1
    /\ loop = 1
    /\ semLoop = 0
    /\ AppInit

Next ==
    \/ SearchTemplate
    \/ SearchTemplateFails
    \/ StartProbing
    \/ \E i \in DOMAIN order : \E j \in 1..NumUrls : Acquire(i, j)
    \/ \E i \in DOMAIN order : \E j \in 1..NumUrls : Block(i, j)
    \/ \E i \in DOMAIN order : \E j \in 1..NumUrls : Respond(i, j)
    \/ \E i \in DOMAIN order : \E j \in 1..NumUrls : RequestRaises(i, j)
    \/ \E i \in DOMAIN order : ProbeReturn(i)
    \/ Finish

Spec == Init /\ [][Next]_vars

(***************************************************************************)
(* Calls of app.py's job_scraper in one process                            *)
(***************************************************************************)
\* the largest number of job_scraper calls in one process
MaxCalls == 2
\* the largest number of items one ddg.text call returns
MaxResults == 2

InitApp ==
    /\ pc = "idle"
    /\ max_results = 0
    /\ tmpl = 0
    /\ domains = {}
    /\ searchLog = <<>>
    /\ order = <<>>
    /\ fst = <<>>
    /\ fres = <<>>
    /\ raisedIn = {}
    /\ requested = EmptyBag
    /\ sem = SEM_MAX
    /\ probe_results = <<>>
    /\ rows = <<>>
    /\ df = <<>>
    /\ input = None
    /\ output = None
    /\ run = 1
    /\ loop = 1
    /\ semLoop = 0
    /\ AppInit

pipelineVars == <<searchVars, probeVars, rows, helperVars, processVars>>

\* job_scraper is called and ddg.text answers; no search_results: return at once
JobScraperCall ==
    /\ pc = "idle"
    /\ calls < MaxCalls
    /\ calls' = calls + 1
    /\ \E rs \in SeqsUpTo(APP_ITEMS, MaxResults) :
          /\ search_results' = rs
          /\ pc' = IF rs = <<>> THEN "idle" ELSE "loop"
    /\ UNCHANGED <<visited_domains, scraped_data, cur, requestLog, df, pipelineVars>>

\* job_scraper is called and ddg.text raises: the call ends in the exception
JobScraperSearchRaises ==
    /\ pc = "idle"
    /\ calls < MaxCalls
    /\ calls' = calls + 1
    /\ UNCHANGED <<pc, visited_domains, scraped_data, search_results, cur, requestLog, df, pipelineVars>>

\* one pass of the loop over search_results, up to the call of scrape_page
LoopStep ==
    /\ pc = "loop"
    /\ search_results # <<>>
    /\ LET url == Head(search_results).href
       IN IF url = None
          THEN \* r['href'] raises KeyError: the call ends in the exception
               /\ pc' = "idle"
               /\ search_results' = <<>>
               /\ UNCHANGED <<visited_domains, cur>>
          ELSE IF ~Truthy(url)
          THEN /\ search_results' = Tail(search_results)
               /\ UNCHANGED <<pc, visited_domains, cur>>
          ELSE IF UrlDomain(url) \in visited_domains
          THEN /\ search_results' = Tail(search_results)
               /\ UNCHANGED <<pc, visited_domains, cur>>
          ELSE /\ visited_domains' = visited_domains \cup {UrlDomain(url)}
               /\ cur' = [url |-> url, domain |-> UrlDomain(url)]
               /\ pc' = "scrape"
               /\ UNCHANGED search_results
    /\ UNCHANGED <<scraped_data, calls, requestLog, df, pipelineVars>>

\* scrape_page(url) and the rest of the pass of the loop
ScrapePage ==
    /\ pc = "scrape"
    /\ requestLog' = Append(requestLog, cur.url)
    /\ \E resp \in APP_RESPONSES(cur.url) :
          LET page_data == scrape_page(resp)
          IN scraped_data' =
                IF page_data # <<>>
                THEN Append(scraped_data, [title |-> page_data[1].title,
                                           description |-> page_data[1].description,
                                           url |-> cur.url,
                                           domain |-> cur.domain])
                ELSE scraped_data
    /\ search_results' = Tail(search_results)
    /\ cur' = None
    /\ pc' = "loop"
    /\ UNCHANGED <<visited_domains, calls, df, pipelineVars>>

\* the loop has ended: pd.DataFrame(scraped_data).to_csv, return
SaveCsv ==
    /\ pc = "loop"
    /\ search_results = <<>>
    /\ df' = scraped_data
    /\ pc' = "idle"
    /\ UNCHANGED <<visited_domains, scraped_data, search_results, cur, calls, requestLog, pipelineVars>>

NextApp == JobScraperCall \/ JobScraperSearchRaises \/ LoopStep \/ ScrapePage \/ SaveCsv

SpecApp == InitApp /\ [][NextApp]_vars

\* One invocation under fair scheduling: the event loop runs every task that can
\* run, and every issued request ends (answer, error or timeout)
Fairness ==
    /\ WF_vars(SearchTemplate \/ SearchTemplateFails)
    /\ WF_vars(StartProbing)
    /\ WF_vars(\E i \in DOMAIN order : \E j \in 1..NumUrls : Acquire(i, j))
    /\ WF_vars(\E i \in DOMAIN order : \E j \in 1..NumUrls : Respond(i, j) \/ RequestRaises(i, j))
    /\ WF_vars(\E i \in DOMAIN order : ProbeReturn(i))
    /\ WF_vars(Finish)

SpecFair == Init /\ [][Next]_vars /\ Fairness

(***************************************************************************)
(* Several invocations of scrape_careers in one process.  The locals of an *)
(* invocation are gone when the next one starts; the module's semaphore    *)
(* stays.  The next invocation runs in the same event loop (awaited again) *)
(* or in a new one (asyncio.run again).                                    *)
(***************************************************************************)
\* the largest number of invocations in one process
MaxRuns == 2

Reinvoke ==
    /\ pc \in {"done", "error"}
    /\ run < MaxRuns
    /\ run' = run + 1
    /\ loop' \in {loop, loop + 1}
    /\ pc' = "search"
    /\ max_results' \in 0..MaxBudget
    /\ tmpl' = 1
    /\ domains' = {}
    /\ searchLog' = <<>>
    /\ order' = <<>>
    /\ fst' = <<>>
    /\ fres' = <<>>
    /\ raisedIn' = {}
    /\ requested' = EmptyBag
    /\ probe_results' = <<>>
    /\ rows' = <<>>
    /\ df' = <<>>
    /\ UNCHANGED <<sem, semLoop, helperVars, appVars>>

NextRuns ==
    \/ Next
    \/ \E i \in DOMAIN order : \E j \in 1..NumUrls : AcquireRaises(i, j)
    \/ Reinvoke

SpecRuns == Init /\ [][NextRuns]_vars

(***************************************************************************)
(* Calls of the pure helpers on inputs drawn from bounded sets             *)
(***************************************************************************)
\* the longest document (in elements) given to extract_emails_from_html
MaxElems == 2
\* the longest text (in words) given to is_job_like
MaxWords == 3

AtTokens == { <<"[", "a", "t", "]">>, <<"(", "a", "t", ")">>, <<"a", "t">> }
DotTokens == { <<"[", "d", "o", "t", "]">>, <<"(", "d", "o", "t", ")">>, <<"d", "o", "t">> }

\* an address whose "@" and "." are written as tokens set off by spaces
SpacedAddress(at, dot) == <<"n", "a", "m", "e", " ">> \o at \o <<" ", "e", "x", "a", "m", "p", "l", "e", " ">> \o dot \o <<" ", "c", "o", "m">>

EmailElems ==
    {Elem("p", SpacedAddress(a, d), None) : a \in AtTokens, d \in DotTokens}
    \cup { Elem("a", <<"m", "a", "i", "l">>, <<"m", "a", "i", "l", "t", "o", ":", "J", "a", "n", "e", "@", "A", "c", "m", "e", ".", "c", "o", "m", "?", "s", "u", "b", "j", "e", "c", "t", "=", "h", "i">>),
           Elem("a", <<"u", "s">>, <<"m", "a", "i", "l", "t", "o", ":", "j", "a", "n", "e", "@", "a", "c", "m", "e", ".", "c", "o", "m">>),
           Elem("a", <<"h", "o", "m", "e">>, <<"h", "t", "t", "p", "s", ":", "/", "/", "a", "c", "m", "e", ".", "c", "o", "m", "/">>),
           Elem("p", <<"j", "a", "n", "e", "@", "a", "c", "m", "e", ".", "c", "o", "m">>, None),
           Elem("p", <<"N", "a", "m", "e", "[", "A", "T", "]", "E", "x", "a", "m", "p", "l", "e", "[", "D", "O", "T", "]", "c", "o", "m">>, None),
           Elem("p", <<"h", "r">>, None),
           Elem("p", <<" ">>, None) }

EmailInputs == {[elems |-> e, malformed |-> m] : e \in SeqsUpTo(EmailElems, MaxElems), m \in BOOLEAN}

JobWords == { <<"W", "e", " ", "a", "r", "e", " ", "H", "I", "R", "I", "N", "G", " ", "n", "o", "w", "!">>, <<"A", "b", "o", "u", "t", " ", "o", "u", "r", " ", "o", "f", "f", "i", "c", "e", " ", "p", "l", "a", "n", "t", "s">>, <<"h", "i", "r", "i", "n", "g">>, <<"m", "a", "n", "a", "g", "e", "r">>,
              <<"c", "a", "r">>, <<"e", "e", "r">>, <<"O", "p", "e", "n", " ">>, <<"P", "o", "s", "i", "t", "i", "o", "n">> }

JobTexts == {None} \cup {Concat(ws) : ws \in SeqsUpTo(JobWords, MaxWords)}
JobTitles == { <<>>, <<"C", "a", "r", "e", "e", "r", "s">>, <<"T", "e", "a", "m">> }

HelperInit(inputs) ==
    /\ pc = "ready"
    /\ input \in inputs
    /\ output = None
    /\ max_results = 0
    /\ tmpl = 0
    /\ domains = {}
    /\ searchLog = <<>>
    /\ order = <<>>
    /\ fst = <<>>
    /\ fres = <<>>
    /\ raisedIn = {}
    /\ requested = EmptyBag
    /\ sem = SEM_MAX
    /\ probe_results = <<>>
    /\ rows = <<>>
    /\ df = <<>>
    /\ run = 1
    /\ loop = 1
    /\ semLoop = 0
    /\ AppInit

InitEmail == HelperInit(EmailInputs)

CallExtractEmails ==
    /\ pc = "ready"
    /\ pc' = "returned"
    /\ output' = extract_emails_from_html(input)
    /\ UNCHANGED <<input, searchVars, probeVars, rows, df, processVars, appVars>>

NextEmail == CallExtractEmails

SpecEmail == InitEmail /\ [][NextEmail]_vars

\* input = <<snippet, title>>
InitJob == HelperInit(JobTexts \X JobTitles)

CallIsJobLike ==
    /\ pc = "ready"
    /\ pc' = "returned"
    /\ output' = is_job_like(input[1])
    /\ UNCHANGED <<input, searchVars, probeVars, rows, df, processVars, appVars>>

\* the flag scrape_careers gives a row with this snippet and title
CallRowJobLike ==
    /\ pc = "ready"
    /\ pc' = "flagged"
    /\ output' = RowJobLike(input[1], input[2])
    /\ UNCHANGED <<input, searchVars, probeVars, rows, df, processVars, appVars>>

NextJob == CallIsJobLike \/ CallRowJobLike

SpecJob == InitJob /\ [][NextJob]_vars

(***************************************************************************)
(* The result counts ddg_search_domains asks for, over its whole template  *)
(* list and over budgets of either sign (--max takes any int).             *)
(***************************************************************************)
\* the query templates of ddg_search_domains, every entry
templates_all ==
    << "{q} jobs", "{q} careers", "{q} \"career\"", "{q} \"apply\"", "{q} \"hiring\"",
       "{q} site:linkedin.com {q}", "{q} site:indeed.com {q}", "{q} site:glassdoor.com {q}" >>

\* max_results // len(templates); // rounds towards minus infinity, as \div does
PerTemplateAll(budget) == budget \div Len(templates_all)

\* the budgets tried are -BudgetSpan..BudgetSpan
BudgetSpan == 70

InitCounts == HelperInit(-BudgetSpan..BudgetSpan)

\* the loop over templates: the max_results each call of ddg.text is given
CallSearchCounts ==
    /\ pc = "ready"
    /\ output' = [t \in DOMAIN templates_all |-> PerTemplateAll(input)]
    /\ pc' = "counted"
    /\ UNCHANGED <<input, searchVars, probeVars, rows, df, processVars, appVars>>

NextCounts == CallSearchCounts

SpecCounts == InitCounts /\ [][NextCounts]_vars

(***************************************************************************)
(* Properties                                                              *)
(***************************************************************************)
IsSuccess(f) == fres[f[1]][f[2]][2] = 200 /\ html_text(fres[f[1]][f[2]][3]) # <<>>
Finished(f) == fst[f[1]][f[2]] = "done"
RowsAt(table, url) == {k \in DOMAIN table : table[k].url = url}
Count(table, r) == Cardinality({k \in DOMAIN table : table[k] = r})

\* C1: during probing the number of fetches that hold a slot (request issued, not
\* yet finished) never exceeds the slot count SEM_MAX, although all fetch tasks of
\* all domains are launched at once and outnumber the slots.
C1_SlotCap == Cardinality(Holding) <= SEM_MAX

\* C1 witness: two domains are being probed, their candidate URLs outnumber the
\* slots, every slot is taken and a fetch is waiting.
C1_Witness ==
    /\ pc = "probe"
    /\ Len(order) = 2
    /\ Cardinality(Fetches) > SEM_MAX
    /\ Cardinality(Holding) = SEM_MAX
    /\ Waiting # {}

\* C2 as claimed: a run whose discovery yields no domain issues no fetch and ends
\* by returning an empty ResultSet, not in an error.
C2_EmptyDiscoveryReturns ==
    (pc \in {"done", "error"} /\ domains = {}) => (pc = "done" /\ df = <<>> /\ Fetches = {})

\* C3: the returned ResultSet has exactly one row for every candidate URL whose
\* fetch returned status 200 with a non-empty body, no row for any other candidate
\* URL (failed, status other than 200, empty body), and no further rows.
C3_RowsAreSuccessfulFetches ==
    pc = "done" =>
        /\ \A f \in Fetches :
              Cardinality(RowsAt(df, FetchUrl(f[1], f[2]))) = IF IsSuccess(f) THEN 1 ELSE 0
        /\ Len(df) = Cardinality({f \in Fetches : IsSuccess(f)})

\* C3 witness: a finished run with a domain whose root URL answered 404 and whose
\* /careers answered 200 with a body, and with a fetch that raised.
C3_Witness ==
    /\ pc = "done"
    /\ raisedIn # {}
    /\ \E i \in DOMAIN order :
          /\ fres[i][1][2] = 404
          /\ IsSuccess(<<i, 2>>)
          /\ {df[k].url : k \in {m \in DOMAIN df : df[m].domain = order[i]}}
                = {<<"h", "t", "t", "p", "s", ":", "/", "/">> \o order[i] \o <<"/", "c", "a", "r", "e", "e", "r", "s">>}

\* C4: the returned ResultSet is a permutation of the assembled rows; every
\* job-like row comes before every row that is not job-like, and rows with the
\* same flag are in ascending order of domain.
C4_Ranked ==
    pc = "done" =>
        /\ Len(df) = Len(rows)
        /\ \A k \in DOMAIN rows : Count(df, rows[k]) = Count(rows, rows[k])
        /\ \A a, b \in DOMAIN df :
              a < b => /\ df[b].is_job_like => df[a].is_job_like
                       /\ df[a].is_job_like = df[b].is_job_like => ~StrLess(df[b].domain, df[a].domain)

\* C4 witness: a finished run over two domains whose rows were assembled in another
\* order than the ranked one, with job-like and other rows.
C4_Witness ==
    /\ pc = "done"
    /\ df # rows
    /\ \E a, b \in DOMAIN df : df[a].is_job_like /\ ~df[b].is_job_like /\ df[a].domain # df[b].domain
    /\ \E a, b \in DOMAIN df : df[a].is_job_like = df[b].is_job_like /\ df[a].domain # df[b].domain

IsLowerCase(s) == \A i \in DOMAIN s : ~IsUpper(s[i])

\* C5 as claimed: the list extract_emails_from_html returns is in ascending order,
\* every address in it is lower-case, and no address appears twice.
C5_SortedLowerUnique ==
    pc = "returned" =>
        /\ \A a, b \in DOMAIN output : a < b => StrLess(output[a], output[b])
        /\ \A a \in DOMAIN output : IsLowerCase(output[a])

\* C6 as claimed: for an address whose "@" and "." are written as [at]/(at)/at and
\* [dot]/(dot)/dot set off by spaces, extract_emails_from_html returns
\* name@example.com.
C6_RoundTrip ==
    \A a \in AtTokens, d \in DotTokens :
        (pc = "returned" /\ input = [elems |-> <<Elem("p", SpacedAddress(a, d), None)>>, malformed |-> FALSE])
            => <<"n", "a", "m", "e", "@", "e", "x", "a", "m", "p", "l", "e", ".", "c", "o", "m">> \in Range(output)

\* C7: a fetch whose HTTP request raised returns (url, 0, "") to its caller, and a
\* run ends in an error only when no fetch at all succeeded: a failing fetch
\* aborts nothing.
C7_FetchNeverRaises ==
    /\ \A f \in raisedIn :
          /\ Finished(f)
          /\ fres[f[1]][f[2]][1] = FetchUrl(f[1], f[2])
          /\ fres[f[1]][f[2]][2] = 0
          /\ html_text(fres[f[1]][f[2]][3]) = <<>>
    /\ pc = "error" => \A f \in Fetches : ~IsSuccess(f)
    /\ (pc = "done" /\ raisedIn # {}) => \A f \in Fetches : IsSuccess(f) => RowsAt(df, FetchUrl(f[1], f[2])) # {}

\* C7 witness: a finished run in which a request raised while another fetch of the
\* same domain succeeded and has its row.
C7_Witness ==
    /\ pc = "done"
    /\ \E f \in raisedIn : \E j \in 1..NumUrls :
          IsSuccess(<<f[1], j>>) /\ RowsAt(df, FetchUrl(f[1], j)) # {}

LoggedDomains == UNION {ItemDomains(searchLog[k].items) : k \in {m \in DOMAIN searchLog : ~searchLog[m].failed}}

\* C8: when ddg_search_domains returns, every template has been queried once, in
\* order, whichever of them failed, and the set holds exactly the domains of the
\* templates that did not fail: the empty set when all failed.
C8_FailedTemplateSkipped ==
    (pc = "search" /\ tmpl = Len(templates) + 1) =>
        /\ Len(searchLog) = Len(templates)
        /\ \A k \in DOMAIN searchLog : searchLog[k].template = k
        /\ domains = LoggedDomains
        /\ (\A k \in DOMAIN searchLog : searchLog[k].failed) => domains = {}

\* C8 witness: discovery is about to return, the first template failed and the
\* second one gave a domain.
C8_Witness ==
    /\ pc = "search"
    /\ tmpl = Len(templates) + 1
    /\ Len(searchLog) = 2
    /\ searchLog[1].failed
    /\ ~searchLog[2].failed
    /\ domains # {}

\* C9: a host is discovered once however many links and templates return it and
\* in whatever letter case (no two domains differ only in case, every domain is
\* lower-case), and exactly one probing task is started per domain.
C9_DomainOnce ==
    /\ \A d \in domains : IsLowerCase(d)
    /\ \A k \in DOMAIN searchLog : \A m \in DOMAIN searchLog[k].items :
          LET href == ItemHref(searchLog[k].items[m])
          IN (Truthy(href) /\ netloc(href) # <<>>) =>
                Cardinality({d \in domains : str_lower(d) = str_lower(netloc(href))}) = 1
    /\ pc \in {"probe", "done", "error"} =>
          /\ Len(order) = Cardinality(domains)
          /\ \A d \in domains : Cardinality({i \in DOMAIN order : order[i] = d}) = 1

\* C9 witness: both templates returned links to the same host, in different letter
\* case and under different paths, and discovery holds that one domain.
C9_Witness ==
    /\ pc = "search"
    /\ tmpl = Len(templates) + 1
    /\ \E k, m \in DOMAIN searchLog :
          /\ k # m
          /\ \E x \in DOMAIN searchLog[k].items : ItemHref(searchLog[k].items[x]) = <<"h", "t", "t", "p", "s", ":", "/", "/", "a", ".", "c", "o", "/", "a">>
          /\ \E x \in DOMAIN searchLog[m].items : ItemHref(searchLog[m].items[x]) = <<"h", "t", "t", "p", "s", ":", "/", "/", "A", ".", "c", "o", "/", "b">>
    /\ domains = { <<"a", ".", "c", "o">> }

\* text, lower-cased, contains a keyword as a contiguous substring
HasKeyword(text) ==
    /\ text # None
    /\ \E k \in Range(JOB_KEYWORDS) : \E a \in DOMAIN text :
          /\ a + Len(k) - 1 <= Len(text)
          /\ str_lower(SubSeq(text, a, a + Len(k) - 1)) = k

\* C10: is_job_like is true exactly when the lower-cased text contains a keyword as
\* a contiguous substring, false for empty or missing text; a row's flag is true
\* exactly when its snippet or its title matches.
C10_KeywordSubstring ==
    /\ pc = "returned" => output = HasKeyword(input[1])
    /\ pc = "flagged" => output = (HasKeyword(input[1]) \/ HasKeyword(input[2]))

\* C10 witness: calls that returned true for "hiringmanager" (no word boundary),
\* and a row flagged by its title alone.
C10_Witness ==
    \/ pc = "returned" /\ input[1] = <<"h", "i", "r", "i", "n", "g", "m", "a", "n", "a", "g", "e", "r">> /\ output
    \/ pc = "flagged" /\ input = << <<"A", "b", "o", "u", "t", " ", "o", "u", "r", " ", "o", "f", "f", "i", "c", "e", " ", "p", "l", "a", "n", "t", "s">>, <<"C", "a", "r", "e", "e", "r", "s">> >> /\ output

\* a fetch ended with the failure value (status 0)
Failed(f) == Finished(f) /\ fres[f[1]][f[2]][2] = 0

\* C11 as claimed: the result of an invocation depends only on the collaborators'
\* responses during that invocation, not on earlier invocations: in the second
\* invocation too, a fetch ends with the failure value only when its own request
\* raised.
C11_SecondRunOnItsOwn ==
    run = 2 => \A f \in Fetches : Failed(f) => f \in raisedIn

\* C12: a request is in flight only for a fetch that holds a slot, and every way
\* out of the fetch (response, exception) gives the slot back: in every state the
\* free slots plus the fetches holding a slot are SEM_MAX, and when probing has
\* finished every fetch is done and all SEM_MAX slots are free.
C12_SlotsBalanced ==
    /\ sem + Cardinality(Holding) = SEM_MAX
    /\ sem \in 0..SEM_MAX
    /\ pc \in {"done", "error"} => (sem = SEM_MAX /\ \A f \in Fetches : Finished(f))

\* C12 witness: probing has finished over more candidate URLs than slots, one
\* request raised, one was answered 404 and one 200, and all slots are free.
C12_Witness ==
    /\ pc = "done"
    /\ Cardinality(Fetches) > SEM_MAX
    /\ raisedIn # {}
    /\ \E f \in Fetches : fres[f[1]][f[2]][2] = 404
    /\ \E f \in Fetches : fres[f[1]][f[2]][2] = 200
    /\ sem = SEM_MAX

\* C13: while discovery is running no fetch exists; the probing tasks are created
\* only after every template has been queried once, in order (answered or
\* failed); and once probing has started no search call is made.
C13_DiscoveryBeforeProbing ==
    /\ [](pc = "search" => (Fetches = {} /\ raisedIn = {}))
    /\ [][/\ (pc = "search" /\ pc' = "probe") =>
                /\ Len(searchLog) = Len(templates)
                /\ \A k \in DOMAIN searchLog : searchLog[k].template = k
          /\ pc # "search" => UNCHANGED <<tmpl, domains, searchLog>>]_vars

\* C13 witness: probing is under way over two discovered domains, a request is in
\* flight and another fetch has finished.
C13_Witness ==
    /\ pc = "probe"
    /\ Len(order) = 2
    /\ Holding # {}
    /\ \E f \in Fetches : Finished(f)

Distinct(urls) == \A a, b \in DOMAIN urls : a # b => urls[a] # urls[b]

\* C14: in one probing run no URL is requested twice: when the tasks are created
\* the candidate URLs of every discovered domain (its root and one URL per entry
\* of COMMON_PATHS) are pairwise distinct, the fetches of a run have pairwise
\* distinct URLs, every URL requested so far was requested once, by a fetch of
\* the run that has left the waiting state, and a fetch that has finished
\* (request failed, or answered with any status) stays finished with its result.
C14_RequestedOnce ==
    /\ [](/\ (pc = "probe" /\ requested = EmptyBag) =>
                \A d \in domains : Distinct(ProbeUrlsAll(d)) /\ Len(ProbeUrlsAll(d)) = Len(COMMON_PATHS_ALL) + 1
          /\ \A f, g \in Fetches : f # g => FetchUrl(f[1], f[2]) # FetchUrl(g[1], g[2])
          /\ \A u \in BagToSet(requested) : CopiesIn(u, requested) = 1
          /\ BagToSet(requested) = {FetchUrl(f[1], f[2]) : f \in Fetches \ Waiting})
    /\ [][\A f \in Fetches : Finished(f) =>
             (fst'[f[1]][f[2]] = "done" /\ fres'[f[1]][f[2]] = fres[f[1]][f[2]])]_vars

\* C14 witness: a finished probing run in which one request raised and another
\* was answered 404, each of the two URLs requested exactly once.
C14_Witness ==
    /\ pc \in {"done", "error"}
    /\ \E f \in raisedIn : CopiesIn(FetchUrl(f[1], f[2]), requested) = 1
    /\ \E f \in Fetches : fres[f[1]][f[2]][2] = 404 /\ CopiesIn(FetchUrl(f[1], f[2]), requested) = 1

\* C15 as claimed: under fair scheduling, with every request ending, the fetches
\* waiting for a slot are all admitted, every probing task completes, and
\* scrape_careers returns its ResultSet.
C15_EventuallyReturns ==
    /\ (pc = "probe" /\ Waiting # {}) ~> (Waiting = {})
    /\ (pc = "probe") ~> (\A i \in DOMAIN probe_results : probe_results[i].returned)
    /\ <>(pc = "done")

\* C16: every row of the assembled rows and of the returned ResultSet carries a
\* discovered domain, and the row's url is one of the candidate URLs built from
\* that domain, in whatever order the fetches and probing tasks completed.
C16_RowUnderItsDomain ==
    \A table \in {rows, df} : \A k \in DOMAIN table :
        /\ table[k].domain \in domains
        /\ table[k].url \in Range(ProbeUrls(table[k].domain))

\* C16 witness: a finished run over two domains with rows of both domains, the
\* domain iterated second ranked first.
C16_Witness ==
    /\ pc = "done"
    /\ Len(order) = 2
    /\ \E a, b \in DOMAIN df : df[a].domain = order[1] /\ df[b].domain = order[2]
    /\ df[1].domain = order[2]

RECURSIVE SumSeq(_)
SumSeq(q) == IF q = <<>> THEN 0 ELSE Head(q) + SumSeq(Tail(q))

\* C17 as claimed: each of the 8 templates is given the same result count, the
\* integer quotient of the budget by the number of templates; the count is at
\* least zero and the counts of all templates together do not exceed the budget,
\* for every budget.
C17_EvenShare ==
    pc = "counted" =>
        /\ Len(output) = 8
        /\ \A t \in DOMAIN output :
              /\ output[t] = output[1]
              /\ output[t] * Len(output) <= input
              /\ input < (output[t] + 1) * Len(output)
              /\ output[t] >= 0
        /\ SumSeq(output) <= input

\* the fetches that were answered 200 with a body the parser raises on
BrokenFetches == {f \in Fetches : Finished(f) /\ IsSuccess(f) /\ soup_raises(fres[f[1]][f[2]][3])}

\* C18: a page fetched successfully on which the parser raises is kept and the
\* run is not aborted: the run ends by returning, the page has its row, the row's
\* title is "N/A", its snippet is empty, and its emails are the addresses the
\* regular expression finds in the raw text (lower-cased), without the address
\* of the mailto: link as written.
C18_ParseFailureKeepsPage ==
    (pc \in {"done", "error"} /\ BrokenFetches # {}) =>
        /\ pc = "done"
        /\ \A f \in BrokenFetches :
              /\ Cardinality(RowsAt(df, FetchUrl(f[1], f[2]))) = 1
              /\ \A k \in RowsAt(df, FetchUrl(f[1], f[2])) :
                    /\ df[k].title = <<"N", "/", "A">>
                    /\ df[k].snippet = <<>>
                    /\ ~df[k].is_job_like
                    /\ df[k].emails = <<"h", "r", "@", "b", ".", "c", "o", ";", "x", "@", "b", ".", "c", "o">>
                    /\ df[k].status = 200

\* C18 witness: a finished run that fetched a page the parser raises on, next to
\* a page that parsed, over two domains.
C18_Witness ==
    /\ pc = "done"
    /\ Len(order) = 2
    /\ BrokenFetches # {}
    /\ \E f \in Fetches : IsSuccess(f) /\ f \notin BrokenFetches
    /\ \E k \in DOMAIN df : df[k].title = <<"N", "/", "A">> /\ df[k].emails = <<"h", "r", "@", "b", ".", "c", "o", ";", "x", "@", "b", ".", "c", "o">>

\* the lower-cased host of a url, computed apart from job_scraper
HostOf(url) == str_lower(netloc(url))
RequestedHosts == {HostOf(requestLog[k]) : k \in DOMAIN requestLog}

\* C19: over any sequence of job_scraper calls in one process, no two requests of
\* scrape_page go to the same lower-cased host; every requested host is in
\* visited_domains, and is so before the request is made; a search result whose
\* host is already in visited_domains (from this call or an earlier one) is passed
\* over without a request; visited_domains never loses a domain; scraped_data has
\* at most one row per domain, each for a requested url, and only grows.
C19_OnePagePerDomain ==
    /\ [](/\ \A a, b \in DOMAIN requestLog : a # b => HostOf(requestLog[a]) # HostOf(requestLog[b])
          /\ RequestedHosts \subseteq visited_domains
          /\ pc = "scrape" => /\ HostOf(cur.url) \in visited_domains
                              /\ HostOf(cur.url) \notin RequestedHosts
                              /\ cur.domain = HostOf(cur.url)
          /\ \A a, b \in DOMAIN scraped_data : a # b => scraped_data[a].domain # scraped_data[b].domain
          /\ \A k \in DOMAIN scraped_data :
                /\ scraped_data[k].url \in Range(requestLog)
                /\ scraped_data[k].domain = HostOf(scraped_data[k].url))
    /\ [][/\ visited_domains \subseteq visited_domains'
          /\ Len(scraped_data) <= Len(scraped_data')
          /\ SubSeq(scraped_data', 1, Len(scraped_data)) = scraped_data
          /\ requestLog' # requestLog => pc = "scrape"
          /\ (/\ pc = "loop"
              /\ search_results # <<>>
              /\ Truthy(Head(search_results).href)
              /\ HostOf(Head(search_results).href) \in visited_domains)
             => (pc' = "loop" /\ requestLog' = requestLog /\ scraped_data' = scraped_data
                 /\ search_results' = Tail(search_results))]_vars

\* C19 witness: in the second call, after a row for a.co was saved by the first,
\* the loop is at a result for the host A.co and another page has been requested
\* in this call.
C19_Witness ==
    /\ calls = 2
    /\ pc = "loop"
    /\ df # <<>>
    /\ \E k \in DOMAIN df : df[k].domain = <<"a", ".", "c", "o">>
    /\ Len(requestLog) = 2
    /\ search_results # <<>>
    /\ Head(search_results).href = <<"h", "t", "t", "p", "s", ":", "/", "/", "A", ".", "c", "o", "/", "b">>
====
